---------------------------- MODULE Spec2Model ----------------------------
(***************************************************************************)
(* Device Communication & Scheduling Engine of RossScheduler.              *)
(*                                                                         *)
(* The model follows the main-process code: the flat-file store            *)
(* (Database), the job scheduler (Scheduler), the two link pools with      *)
(* their clients (RossTalkClient / SWP08Client) and the IPC handlers that  *)
(* drive them.  One action is one run-to-completion step of the Node event *)
(* loop: an IPC handler, a timer callback, a socket event together with    *)
(* the promise continuations (microtasks) it releases.                     *)
(*                                                                         *)
(* Time is counted in ticks; a cron expression is kept as the string the   *)
(* store holds and interpreted by CronNext.                                *)
(***************************************************************************)
EXTENDS Integers, Sequences, FiniteSets, TLC

\* ------------------------------------------------------------------ bounds
MaxSched == 1     \* schedules ever created (ids are never reused)
MaxTime == 1      \* the clock runs 0..MaxTime
MaxExec == 1      \* executions ever started (timer fires + runNow)
MaxCmd == 2       \* commands ever started in the link-level specification

\* ------------------------------------------------------------- null values
NoTime    == -1   \* null last_run / next_run / run_at; no pending invocation
NoId      == 0    \* null socket, no waiter
Undefined == -1   \* a field of the decoded payload that is undefined

Min(S) == CHOOSE x \in S : \A y \in S : x <= y

Remove(f, k) == [x \in DOMAIN f \ {k} |-> f[x]]

Put(f, k, v) == [x \in DOMAIN f \cup {k} |-> IF x = k THEN v ELSE f[x]]

Fresh(f) == Min((1..(Cardinality(DOMAIN f) + 1)) \ DOMAIN f)

\* ------------------------------------------------------------------- state
VARIABLES
  now,        \* the clock (new Date())
  devices,    \* Database.data.devices: id -> record
  schedules,  \* Database.data.schedules: id -> record
  nextId,     \* Database.data.nextId
  log,        \* Database.data.command_log (sequence of rows)
  jobs,       \* Scheduler.jobs: schedule id -> job handle
  jobObjs,    \* node-schedule Job objects: handle -> [sched, at]
  pools,      \* rossTalkPool.clients / swp08Pool.clients: <<pool, device>> -> client
  clients,    \* client objects: ref -> [key, socket, connected, reconnectTimer
              \* (the handle is set), timers (setTimeout callbacks pending)]
  sockets,    \* net.Socket objects that can still emit: ref -> record
  execs,      \* executeCommand calls suspended at an await: ref -> record
  finished,   \* history: settled executeCommand calls: ref -> record
  last,       \* history: the step just taken
  wire        \* one SWP08Client's byte level: frame built, responseBuffer,
              \* bytes on their way from the device, 'response' events emitted

vars == <<now, devices, schedules, nextId, log, jobs, jobObjs, pools, clients,
          sockets, execs, finished, last, wire>>

Cur == [now |-> now, devices |-> devices, schedules |-> schedules,
        nextId |-> nextId, log |-> log, jobs |-> jobs, jobObjs |-> jobObjs,
        pools |-> pools, clients |-> clients, sockets |-> sockets,
        execs |-> execs, finished |-> finished]

Commit(S, l) ==
  /\ now' = S.now
  /\ devices' = S.devices
  /\ schedules' = S.schedules
  /\ nextId' = S.nextId
  /\ log' = S.log
  /\ jobs' = S.jobs
  /\ jobObjs' = S.jobObjs
  /\ pools' = S.pools
  /\ clients' = S.clients
  /\ sockets' = S.sockets
  /\ execs' = S.execs
  /\ finished' = S.finished
  /\ last' = l
  /\ wire' = wire

NoRet == [success |-> FALSE, message |-> ""]

\* The byte level of a client that has built and received nothing.
NoWire == [call |-> "", op |-> "idle", source |-> 0, destination |-> 0, matrix |-> 0, level |-> 0,
           frame |-> << >>, stream |-> << >>, rest |-> << >>,
           responseBuffer |-> << >>, responses |-> << >>]

\* The history variable `last`: which operation the step was ("fire",
\* "runNow", "load", "reschedule", "cancel", "stopAll", "uncaught" or
\* "other"), on which schedule id, the
\* schedule kind of a fired job, and what runNow returned at once.
Step(op, id) == [op |-> op, id |-> id, kind |-> "", ret |-> NoRet]

Other == Step("other", NoId)

\* --------------------------------------------------------- inputs (domains)
\* What the renderer (or an import file) can hand to schedules:create and
\* schedules:update: a target device, a command kind and its stored payload.
\* Device 3 is an id no device has.
CommandInputs ==
  { [device_id |-> 1, command_type |-> "take",  command_data |-> "{\"takeId\":7}"],
    [device_id |-> 2, command_type |-> "route", command_data |-> "{\"source\":3,\"destination\":5}"],
    [device_id |-> 1, command_type |-> "take",  command_data |-> "{}"],
    [device_id |-> 2, command_type |-> "route", command_data |-> "{\"source\":3}"],
    [device_id |-> 2, command_type |-> "route", command_data |-> "not json"],
    [device_id |-> 1, command_type |-> "take",  command_data |-> "null"],
    [device_id |-> 3, command_type |-> "take",  command_data |-> "{\"takeId\":7}"] }

TimingInputs ==
  { [schedule_type |-> "once", cron_expression |-> "", run_at |-> 1],
    [schedule_type |-> "recurring", cron_expression |-> "* * * * *", run_at |-> NoTime] }

\* ------------------------------------------------------------ pure helpers
\* JSON.parse of a stored payload, by cases of the payload strings above:
\* kind "throw" is a SyntaxError, kind "null" the value null.
JSONparse(s) ==
  CASE s = "{\"takeId\":7}" ->
         [kind |-> "object", takeId |-> 7, source |-> Undefined, destination |-> Undefined]
    [] s = "{\"source\":3,\"destination\":5}" ->
         [kind |-> "object", takeId |-> Undefined, source |-> 3, destination |-> 5]
    [] s = "{\"source\":3}" ->
         [kind |-> "object", takeId |-> Undefined, source |-> 3, destination |-> Undefined]
    [] s = "{}" ->
         [kind |-> "object", takeId |-> Undefined, source |-> Undefined, destination |-> Undefined]
    [] s = "null" ->
         [kind |-> "null", takeId |-> Undefined, source |-> Undefined, destination |-> Undefined]
    [] OTHER ->
         [kind |-> "throw", takeId |-> Undefined, source |-> Undefined, destination |-> Undefined]

Digit(d) ==
  CASE d = 0 -> "0" [] d = 1 -> "1" [] d = 2 -> "2" [] d = 3 -> "3" [] d = 4 -> "4"
    [] d = 5 -> "5" [] d = 6 -> "6" [] d = 7 -> "7" [] d = 8 -> "8" [] OTHER -> "9"

RECURSIVE NumStr(_)
NumStr(n) == IF n < 10 THEN Digit(n) ELSE NumStr(n \div 10) \o Digit(n % 10)

\* `${x}` of a number or of undefined.
Tpl(x) == IF x = Undefined THEN "undefined" ELSE NumStr(x)

TakeCommand(takeId) == "TAKE " \o Tpl(takeId)

RouteCommand(source, destination) == "ROUTE " \o Tpl(source) \o " -> " \o Tpl(destination)

\* job.nextInvocation() of a cron job at time t: the first matching tick
\* after t.  "* * * * *" matches every tick; any other text is no rule.
CronValid(cron) == cron = "* * * * *"

CronNext(cron, t) == t + 1

\* ------------------------------------------------------------------- store
\* Database.updateSchedule(id, {next_run}), {last_run}, {enabled}: a no-op
\* (returns null) when the id is not in the store.
DbSetNextRun(S, id, t) ==
  IF id \in DOMAIN S.schedules
  THEN [S EXCEPT !.schedules[id].next_run = t]
  ELSE S

DbSetLastRun(S, id, t) ==
  IF id \in DOMAIN S.schedules
  THEN [S EXCEPT !.schedules[id].last_run = t]
  ELSE S

DbSetEnabled(S, id, b) ==
  IF id \in DOMAIN S.schedules
  THEN [S EXCEPT !.schedules[id].enabled = b]
  ELSE S

\* The ScheduleData a job closure or runNow works on: the schedule joined
\* with its device's host (the fields executeCommand and scheduleJob read).
ScheduleData(S, id, host) ==
  LET s == S.schedules[id] IN
  [id |-> id, device_id |-> s.device_id, command_type |-> s.command_type,
   command_data |-> s.command_data, schedule_type |-> s.schedule_type,
   cron_expression |-> s.cron_expression, run_at |-> s.run_at, host |-> host]

\* Database.getEnabledSchedules: ids of the enabled schedules whose device
\* exists and is enabled (array order is id order).
GetEnabledSchedules(S) ==
  { id \in DOMAIN S.schedules :
      /\ S.schedules[id].enabled
      /\ S.schedules[id].device_id \in DOMAIN S.devices
      /\ S.devices[S.schedules[id].device_id].enabled }

EnabledData(S, id) == ScheduleData(S, id, S.devices[S.schedules[id].device_id].host)

\* ---------------------------------------------------------------- scheduler
\* Scheduler.cancelJob
CancelJob(S, id) ==
  IF id \in DOMAIN S.jobs
  THEN [S EXCEPT !.jobObjs = Remove(@, S.jobs[id]), !.jobs = Remove(@, id)]
  ELSE S

\* A faulty scheduleJob that installs the new job without the cancelJob call
\* of line 44.
ScheduleJob_NoCancel(S, sched) ==
  LET at == IF sched.schedule_type = "recurring"
            THEN IF CronValid(sched.cron_expression)
                 THEN CronNext(sched.cron_expression, S.now) ELSE NoTime
            ELSE IF sched.run_at # NoTime /\ sched.run_at > S.now
                 THEN sched.run_at ELSE NoTime
  IN IF at = NoTime THEN S
     ELSE LET h == Fresh(S.jobObjs)
          IN DbSetNextRun([S EXCEPT !.jobObjs = Put(@, h, [sched |-> sched, at |-> at]),
                                    !.jobs = Put(@, sched.id, h)],
                          sched.id, at)

\* A faulty scheduleJob that installs a one-time job without comparing its
\* date with the clock.
ScheduleJob_NoDateCheck(S, sched) ==
  LET S1 == CancelJob(S, sched.id)
      h  == Fresh(S1.jobObjs)
      at == IF sched.schedule_type = "recurring" /\ CronValid(sched.cron_expression)
              THEN CronNext(sched.cron_expression, S1.now)
            ELSE IF sched.schedule_type = "once" /\ sched.run_at # NoTime
              THEN sched.run_at
            ELSE NoTime
  IN IF at = NoTime
     THEN S1
     ELSE DbSetNextRun([S1 EXCEPT !.jobObjs = Put(@, h, [sched |-> sched, at |-> at]),
                                  !.jobs = Put(@, sched.id, h)],
                       sched.id, at)

\* Scheduler.scheduleJob
ScheduleJob(S, sched) ==
  LET S1 == CancelJob(S, sched.id)
      h  == Fresh(S1.jobObjs)
      at == IF sched.schedule_type = "recurring" /\ CronValid(sched.cron_expression)
              THEN CronNext(sched.cron_expression, S1.now)
            ELSE IF sched.schedule_type = "once" /\ sched.run_at # NoTime
                    /\ sched.run_at > S1.now
              THEN sched.run_at
            ELSE NoTime
  IN IF at = NoTime
     THEN S1
     ELSE DbSetNextRun([S1 EXCEPT !.jobObjs = Put(@, h, [sched |-> sched, at |-> at]),
                                  !.jobs = Put(@, sched.id, h)],
                       sched.id, at)

RECURSIVE ScheduleEach(_, _, _)
ScheduleEach(S, S0, ids) ==
  IF ids = {} THEN S
  ELSE LET id == Min(ids)
       IN ScheduleEach(ScheduleJob(S, EnabledData(S0, id)), S0, ids \ {id})

\* A faulty loadSchedules that passes over the one-time schedules.
LoadSchedulesOp_SkipsOnce(S) ==
  ScheduleEach(S, S, { id \in GetEnabledSchedules(S) :
                         S.schedules[id].schedule_type = "recurring" })

\* Scheduler.loadSchedules
LoadSchedulesOp(S) == ScheduleEach(S, S, GetEnabledSchedules(S))

\* Scheduler.addSchedule
AddSchedule(S, id) ==
  IF id \in GetEnabledSchedules(S) THEN ScheduleJob(S, EnabledData(S, id)) ELSE S

\* A faulty updateSchedule without its cancelJob call.
UpdateScheduleOp_NoCancel(S, id) == AddSchedule(S, id)

\* Scheduler.updateSchedule
UpdateScheduleOp(S, id) == AddSchedule(CancelJob(S, id), id)

\* Scheduler.enableSchedule / disableSchedule
EnableSchedule(S, id) == AddSchedule(S, id)

\* A faulty disableSchedule that leaves the job where it is.
DisableSchedule_KeepsJob(S, id) == S

DisableSchedule(S, id) == CancelJob(S, id)


\* --------------------------------------------------------------- link layer
\* Listeners connect() installs on a fresh socket: once('connect'),
\* once('error') (rejects), once('timeout'), on('data'), on('close') and
\* on('error') (re-emits on the client).
AllListeners == {"connect", "error_once", "timeout", "data", "close", "error"}

\* cleanup() inside connect(): RossTalkClient removes every listener of the
\* socket, SWP08Client only the 'error' and 'timeout' listeners.
CleanupL(pool, L) ==
  IF pool = "rosstalk" THEN {} ELSE L \ {"error_once", "error", "timeout"}

\* cleanup() acts on this.socket as it is when the event arrives.
Cleanup(S, c) ==
  LET cur == S.clients[c].socket IN
  IF cur \in DOMAIN S.sockets
  THEN [S EXCEPT !.sockets[cur].L = CleanupL(S.clients[c].key[1], @)]
  ELSE S

\* Drop what can no longer be observed: a socket that is not its client's
\* this.socket and has no listener left; a client that is in no pool and has
\* no socket and no reconnect timer (calls still suspended on it keep only
\* their own timeout); the socket a call wrote to, once it is gone.
Gc(S) ==
  LET socks == { s \in DOMAIN S.sockets :
                   S.sockets[s].L # {} \/ S.clients[S.sockets[s].client].socket = s }
      live  == { c \in DOMAIN S.clients :
                   \/ \E k \in DOMAIN S.pools : S.pools[k] = c
                   \/ \E s \in socks : S.sockets[s].client = c
                   \/ S.clients[c].reconnectTimer
                   \/ S.clients[c].timers > 0 }
  IN [S EXCEPT !.sockets = [s \in socks |-> S.sockets[s]],
               !.clients = [c \in live |-> S.clients[c]],
               !.execs   = [e \in DOMAIN S.execs |->
                              IF S.execs[e].client \notin live
                              THEN [S.execs[e] EXCEPT !.client = NoId, !.sock = NoId]
                              ELSE IF S.execs[e].sock \notin socks
                              THEN [S.execs[e] EXCEPT !.sock = NoId]
                              ELSE S.execs[e]]]

\* A faulty getClient that builds a new client on every call.
GetClient_AlwaysNew(S, key, host) ==
  LET c == Fresh(S.clients) IN
  [S EXCEPT !.clients = Put(@, c, [key |-> key, host |-> host, socket |-> NoId,
                                   connected |-> FALSE, reconnectTimer |-> FALSE,
                                   timers |-> 0]),
            !.pools = Put(@, key, c)]

\* RossTalkPool.getClient / SWP08Pool.getClient
GetClient(S, key, host) ==
  IF key \in DOMAIN S.pools THEN S
  ELSE LET c == Fresh(S.clients) IN
       [S EXCEPT !.clients = Put(@, c, [key |-> key, host |-> host, socket |-> NoId,
                                        connected |-> FALSE, reconnectTimer |-> FALSE,
                                        timers |-> 0]),
                 !.pools = Put(@, key, c)]

\* A faulty scheduleReconnect without the test of the pending timer.
ScheduleReconnect_NoGuard(S, c) ==
  [S EXCEPT !.clients[c].reconnectTimer = TRUE, !.clients[c].timers = @ + 1]

\* RossTalkClient.scheduleReconnect / SWP08Client.scheduleReconnect: setTimeout
\* unless this.reconnectTimer is set.
ScheduleReconnect(S, c) ==
  IF S.clients[c].reconnectTimer THEN S
  ELSE [S EXCEPT !.clients[c].reconnectTimer = TRUE, !.clients[c].timers = @ + 1]

\* new net.Socket(): an object no reference held anywhere points to (a
\* client's this.socket and a waiting call may still refer to a socket that
\* has closed).
FreshSocket(S) ==
  LET used == DOMAIN S.sockets
              \cup { S.clients[c].socket : c \in DOMAIN S.clients }
              \cup { S.execs[e].sock : e \in DOMAIN S.execs }
  IN Min((1..(Cardinality(used) + 1)) \ used)

\* RossTalkClient.connect / SWP08Client.connect, up to socket.connect():
\* waiter w is the call awaiting the promise (an execution, or NoId for the
\* reconnect timer's callback).
Connect(S, c, w) ==
  IF S.clients[c].connected /\ S.clients[c].socket # NoId THEN S
  ELSE LET s == FreshSocket(S) IN
       [S EXCEPT !.sockets = Put(@, s, [client |-> c, st |-> "connecting",
                                        L |-> AllListeners, waiter |-> w,
                                        pending |-> TRUE]),
                 !.clients[c].socket = s]

\* RossTalkClient.disconnect / SWP08Client.disconnect
ClientDisconnect(S, c) ==
  [S EXCEPT !.sockets = Remove(@, S.clients[c].socket),
            !.clients[c].reconnectTimer = FALSE,
            !.clients[c].timers = IF S.clients[c].reconnectTimer THEN @ - 1 ELSE @,
            !.clients[c].socket = NoId,
            !.clients[c].connected = FALSE]

\* RossTalkPool.disconnect / SWP08Pool.disconnect
PoolDisconnect(S, key) ==
  IF key \in DOMAIN S.pools
  THEN [ClientDisconnect(S, S.pools[key]) EXCEPT !.pools = Remove(@, key)]
  ELSE S

RECURSIVE DisconnectEach(_, _)
DisconnectEach(S, keys) ==
  IF keys = {} THEN S
  ELSE LET k == CHOOSE x \in keys : TRUE
       IN DisconnectEach(PoolDisconnect(S, k), keys \ {k})

\* rossTalkPool.disconnectAll(); swp08Pool.disconnectAll()
DisconnectAll(S) == DisconnectEach(S, DOMAIN S.pools)

\* --------------------------------------------------------------- execution
NextExec(S) == Cardinality(DOMAIN S.execs) + Cardinality(DOMAIN S.finished) + 1

\* What runNow hands back once executeCommand has returned.
RunNowReturn == [success |-> TRUE, message |-> "Command executed"]

Settle(S, e, raised, success, message) ==
  LET x == S.execs[e] IN
  [S EXCEPT !.execs = Remove(@, e),
            !.finished = Put(@, e,
               [sched |-> x.sched, via |-> x.via, raised |-> raised,
                success |-> success, message |-> message, command |-> x.command,
                answered |-> x.answered, started |-> x.started,
                ret |-> IF x.via = "runNow" /\ ~raised THEN RunNowReturn ELSE NoRet])]

\* Database.createLog
CreateLog(S, e, status, response) ==
  LET x == S.execs[e] IN
  [S EXCEPT !.log = Append(@, [id |-> S.nextId.command_log,
                               schedule_id |-> x.sched.id,
                               device_id |-> x.sched.device_id,
                               command |-> x.command, status |-> status,
                               response |-> response, exec |-> e]),
            !.nextId.command_log = @ + 1]

\* job.nextInvocation() of the registered job, written to next_run.
UpdateNextRun(S, id) ==
  IF id \in DOMAIN S.jobs /\ S.jobObjs[S.jobs[id]].at # NoTime
  THEN DbSetNextRun(S, id, S.jobObjs[S.jobs[id]].at)
  ELSE S

\* Scheduler.executeCommand from "Log the command" to its end.
FinishExec(S, e, success, message) ==
  LET id == S.execs[e].sched.id
      S1 == CreateLog(S, e, IF success THEN "success" ELSE "error", message)
      S2 == DbSetLastRun(S1, id, S1.now)
      S3 == UpdateNextRun(S2, id)
  IN Settle(S3, e, FALSE, success, message)

\* executeCommand rejects: nothing after the throw runs.
RaiseExec(S, e, message) == Settle(S, e, TRUE, FALSE, message)

\* The promise body of sendCommand (after the implicit connect): register
\* the one-shot response handler and the timeout, write to this.socket.
SendWrite(S, e) ==
  LET c   == S.execs[e].client
      cur == IF c = NoId THEN NoId ELSE S.clients[c].socket
  IN IF cur = NoId THEN FinishExec(S, e, FALSE, "Socket not initialized")
     ELSE IF cur \notin DOMAIN S.sockets
       THEN FinishExec(S, e, FALSE, "Cannot call write after a stream was destroyed")
     ELSE [S EXCEPT !.execs[e].pc = "awaiting", !.execs[e].sock = cur]

\* RossTalkClient.sendCommand / SWP08Client.sendCommand up to the first await.
SendCommand(S, e) ==
  LET c == S.execs[e].client IN
  IF ~S.clients[c].connected \/ S.clients[c].socket = NoId
  THEN [Connect(S, c, e) EXCEPT !.execs[e].pc = "connecting"]
  ELSE SendWrite(S, e)

\* pool.sendTake / pool.route: getClient, then the client's sendTake / route.
PoolSend(S, e, pool, command) ==
  LET x   == S.execs[e]
      key == <<pool, x.sched.device_id>>
      S1  == GetClient(S, key, x.sched.host)
  IN SendCommand([S1 EXCEPT !.execs[e].client = S1.pools[key],
                            !.execs[e].command = command], e)

\* A faulty executeCommand that builds and sends the command without testing
\* that the payload has the fields of its kind.
ExecuteCommand_NoFieldCheck(S, sched, via) ==
  LET e  == NextExec(S)
      cd == JSONparse(sched.command_data)
      S0 == [S EXCEPT !.execs = Put(@, e, [sched |-> sched, via |-> via, pc |-> "start",
                                           client |-> NoId, sock |-> NoId,
                                           command |-> "", answered |-> FALSE,
                                           started |-> S.now])]
  IN IF cd.kind = "throw" THEN RaiseExec(S0, e, "SyntaxError")
     ELSE IF cd.kind = "null" THEN RaiseExec(S0, e, "TypeError")
     ELSE IF sched.command_type = "take"
       THEN PoolSend(S0, e, "rosstalk", TakeCommand(cd.takeId))
     ELSE PoolSend(S0, e, "swp08", RouteCommand(cd.source, cd.destination))

\* Scheduler.executeCommand up to its first suspension (or to its end when
\* nothing is awaited).
ExecuteCommand(S, sched, via) ==
  LET e  == NextExec(S)
      cd == JSONparse(sched.command_data)
      S0 == [S EXCEPT !.execs = Put(@, e, [sched |-> sched, via |-> via, pc |-> "start",
                                           client |-> NoId, sock |-> NoId,
                                           command |-> "", answered |-> FALSE,
                                           started |-> S.now])]
  IN IF cd.kind = "throw" THEN RaiseExec(S0, e, "SyntaxError")
     ELSE IF cd.kind = "null" THEN RaiseExec(S0, e, "TypeError")
     ELSE IF sched.command_type = "take" /\ cd.takeId # Undefined
       THEN PoolSend(S0, e, "rosstalk", TakeCommand(cd.takeId))
     ELSE IF sched.command_type = "route" /\ cd.source # Undefined
             /\ cd.destination # Undefined
       THEN PoolSend(S0, e, "swp08", RouteCommand(cd.source, cd.destination))
     ELSE FinishExec([S0 EXCEPT !.execs[e].command = "UNKNOWN"], e, FALSE,
                     "Invalid command data")


\* ------------------------------------------------------- socket events (ops)
\* The connect promise of a socket is rejected: the awaiting sendCommand
\* throws into sendTake / route, which hand a failure result to
\* executeCommand; the reconnect callback's catch schedules the next attempt.
RejectConnect(S, c, w, pending, message) ==
  IF ~pending THEN S
  ELSE IF w = NoId THEN ScheduleReconnect(S, c)
  ELSE IF w \in DOMAIN S.execs /\ S.execs[w].pc = "connecting"
    THEN FinishExec(S, w, FALSE, message)
  ELSE S

\* on('close'): connected = false; scheduleReconnect().  Then the socket is
\* gone.
CloseSocket(S, s) ==
  LET c  == S.sockets[s].client
      S1 == IF "close" \in S.sockets[s].L
            THEN ScheduleReconnect([S EXCEPT !.clients[c].connected = FALSE], c)
            ELSE S
  IN [S1 EXCEPT !.sockets = Remove(@, s)]

\* 'connect' on socket s.
OnConnect(S, s) ==
  LET sk == S.sockets[s]
      c  == sk.client
      S1 == [S EXCEPT !.sockets[s].st = "open"]
  IN IF "connect" \notin sk.L THEN S1
     ELSE LET S2 == Cleanup([S1 EXCEPT !.clients[c].connected = TRUE,
                                       !.sockets[s].L = @ \ {"connect"},
                                       !.sockets[s].pending = FALSE], c)
          IN IF sk.waiter \in DOMAIN S2.execs /\ S2.execs[sk.waiter].pc = "connecting"
             THEN SendWrite(S2, sk.waiter)
             ELSE S2

\* 'error' on a connecting socket s (refused, unreachable), then its 'close'.
OnError(S, s) ==
  LET sk == S.sockets[s]
      c  == sk.client
      S1 == IF "error_once" \in sk.L
            THEN RejectConnect(Cleanup([S EXCEPT !.sockets[s].L = @ \ {"error_once"},
                                                 !.sockets[s].pending = FALSE], c),
                               c, sk.waiter, sk.pending, "connect ECONNREFUSED")
            ELSE S
  IN CloseSocket(S1, s)

\* 'timeout' on socket s: cleanup, this.socket.destroy(), reject.
OnTimeout(S, s) ==
  LET sk  == S.sockets[s]
      c   == sk.client
      S1  == Cleanup([S EXCEPT !.sockets[s].L = @ \ {"timeout"},
                               !.sockets[s].pending = FALSE], c)
      cur == S1.clients[c].socket
      S2  == IF cur \in DOMAIN S1.sockets THEN CloseSocket(S1, cur) ELSE S1
  IN RejectConnect(S2, c, sk.waiter, sk.pending, "Connection timeout")

\* The message of a successful sendTake / route.
SuccessMessage(S, e) ==
  LET x == S.execs[e]
      cd == JSONparse(x.sched.command_data)
  IN IF x.sched.command_type = "take" THEN "OK"
     ELSE "Route " \o Tpl(cd.source) \o " -> " \o Tpl(cd.destination) \o " executed"

RECURSIVE ResolveEach(_, _)
ResolveEach(S, es) ==
  IF es = {} THEN S
  ELSE LET e == Min(es)
       IN ResolveEach(FinishExec(S, e, TRUE, SuccessMessage(S, e)), es \ {e})

\* One complete response (line or frame) arrives on socket s, sent by the
\* device in answer to execution e's command.  With a 'data' listener the
\* client emits 'response', which runs every registered one-shot handler.
OnData(S, s, e) ==
  LET c  == S.sockets[s].client
      S1 == [S EXCEPT !.execs[e].answered = TRUE]
  IN IF "data" \in S.sockets[s].L
     THEN ResolveEach(S1, { x \in DOMAIN S1.execs :
                              S1.execs[x].client = c /\ S1.execs[x].pc = "awaiting" })
     ELSE S1

\* The reconnect timer's callback.
OnReconnectTimer(S, c) ==
  Connect([S EXCEPT !.clients[c].reconnectTimer = FALSE, !.clients[c].timers = @ - 1],
          c, NoId)

\* ------------------------------------------------------------ IPC handlers
\* Database.createSchedule
DbCreateSchedule(S, cmd, tim, en) ==
  [S EXCEPT !.schedules = Put(@, S.nextId.schedules,
              [device_id |-> cmd.device_id, command_type |-> cmd.command_type,
               command_data |-> cmd.command_data, schedule_type |-> tim.schedule_type,
               cron_expression |-> tim.cron_expression, run_at |-> tim.run_at,
               enabled |-> en, last_run |-> NoTime, next_run |-> NoTime]),
            !.nextId.schedules = @ + 1]

\* Database.updateSchedule(id, data) with the command and timing fields.
DbUpdateSchedule(S, id, cmd, tim) ==
  IF id \in DOMAIN S.schedules
  THEN [S EXCEPT !.schedules[id] =
          [@ EXCEPT !.device_id = cmd.device_id, !.command_type = cmd.command_type,
                    !.command_data = cmd.command_data,
                    !.schedule_type = tim.schedule_type,
                    !.cron_expression = tim.cron_expression, !.run_at = tim.run_at]]
  ELSE S

\* Database.deleteSchedule
DbDeleteSchedule(S, id) ==
  [S EXCEPT !.schedules = Remove(@, id),
            !.log = [i \in DOMAIN @ |->
                       IF @[i].schedule_id = id THEN [@[i] EXCEPT !.schedule_id = NoId]
                       ELSE @[i]]]

\* Database.deleteDevice (router endpoints are not modelled)
DbDeleteDevice(S, d) ==
  LET keep(row) == row.device_id # d IN
  [S EXCEPT !.devices = Remove(@, d),
            !.schedules = [i \in { j \in DOMAIN @ : @[j].device_id # d } |-> @[i]],
            !.log = SelectSeq(@, keep)]

PoolOf(type) == IF type = "xpression" THEN "rosstalk" ELSE "swp08"

\* Partial device records handed to devices:update; "" is an absent field.
DeviceUpdates ==
  { [host |-> "h2", type |-> "", enabled |-> ""],
    [host |-> "", type |-> "xpression", enabled |-> ""],
    [host |-> "", type |-> "ultrix", enabled |-> ""],
    [host |-> "h2", type |-> "xpression", enabled |-> ""],
    [host |-> "h2", type |-> "ultrix", enabled |-> ""],
    [host |-> "", type |-> "", enabled |-> "false"],
    [host |-> "", type |-> "", enabled |-> "true"] }

\* Database.updateDevice
DbUpdateDevice(S, d, device) ==
  IF d \notin DOMAIN S.devices THEN S
  ELSE [S EXCEPT !.devices[d] =
          [type    |-> IF device.type # "" THEN device.type ELSE @.type,
           host    |-> IF device.host # "" THEN device.host ELSE @.host,
           enabled |-> IF device.enabled # "" THEN device.enabled = "true" ELSE @.enabled]]

\* The devices:update handler: updateDevice, then, when a host (or port) was
\* given, disconnect(id) on the pool of the device's type as now stored.
DevicesUpdateOp(S, d, device) ==
  LET S1 == DbUpdateDevice(S, d, device) IN
  IF device.host # "" /\ d \in DOMAIN S1.devices
  THEN PoolDisconnect(S1, <<PoolOf(S1.devices[d].type), d>>)
  ELSE S1

\* A faulty getStatus that obtains the link through getClient.
GetStatus_Registers(S, key) ==
  LET S1 == GetClient(S, key, "h")
  IN [S |-> S1, ret |-> S1.clients[S1.pools[key]].connected]

\* RossTalkPool.getStatus / SWP08Pool.getStatus: the link's connected flag,
\* false without a link; S is the state it leaves.
GetStatus(S, key) ==
  [S |-> S,
   ret |-> IF key \in DOMAIN S.pools THEN S.clients[S.pools[key]].connected ELSE FALSE]

\* Scheduler.stopAll
StopAllOp(S) ==
  DisconnectAll([S EXCEPT !.jobObjs = [h \in DOMAIN @ \ { S.jobs[i] : i \in DOMAIN S.jobs } |-> @[h]],
                          !.jobs = << >>])

\* --------------------------------------------------- timer callbacks, runNow
\* The callback scheduleJob installs for a recurring schedule.
RecurringCallback(S, sched) == ExecuteCommand(S, sched, "timer")

\* A faulty one-time callback that runs the command and leaves the schedule
\* enabled.
OnceCallback_NoDisable(S, sched) == ExecuteCommand(S, sched, "timer")

\* The callback scheduleJob installs for a one-time schedule:
\* executeCommand(sched) is started, then the schedule is disabled.
OnceCallback(S, sched) ==
  DbSetEnabled(ExecuteCommand(S, sched, "timer"), sched.id, FALSE)

\* A node-schedule timer fires: the job's next invocation is planned (none
\* for a date job), then the callback runs.
FireOp(S, h) ==
  LET sched == S.jobObjs[h].sched IN
  IF sched.schedule_type = "recurring"
  THEN RecurringCallback([S EXCEPT !.jobObjs[h].at = CronNext(sched.cron_expression, S.now)],
                         sched)
  ELSE OnceCallback([S EXCEPT !.jobObjs[h].at = NoTime], sched)

NotFound(message) == [success |-> FALSE, message |-> message]

\* A faulty runNow without the device lookup and its early return.
RunNowOp_NoDeviceCheck(S, id) ==
  IF id \notin DOMAIN S.schedules
  THEN [S |-> S, ret |-> NotFound("Schedule not found")]
  ELSE [S |-> ExecuteCommand(S, ScheduleData(S, id, ""), "runNow"), ret |-> NoRet]

\* A faulty runNow that treats the run as the schedule's timer and drops its
\* job from the registry.
RunNowOp_CancelsJob(S, id) ==
  IF id \notin DOMAIN S.schedules
  THEN [S |-> S, ret |-> NotFound("Schedule not found")]
  ELSE IF S.schedules[id].device_id \notin DOMAIN S.devices
  THEN [S |-> S, ret |-> NotFound("Device not found")]
  ELSE [S |-> CancelJob(ExecuteCommand(S, ScheduleData(S, id,
                                         S.devices[S.schedules[id].device_id].host),
                                       "runNow"), id),
        ret |-> NoRet]

\* Scheduler.runNow up to its first suspension: the state it leaves and what
\* it has returned by then (NoRet while it awaits executeCommand; the value
\* it returns afterwards is kept with the settled execution).
RunNowOp(S, id) ==
  IF id \notin DOMAIN S.schedules
  THEN [S |-> S, ret |-> NotFound("Schedule not found")]
  ELSE IF S.schedules[id].device_id \notin DOMAIN S.devices
  THEN [S |-> S, ret |-> NotFound("Device not found")]
  ELSE [S |-> ExecuteCommand(S, ScheduleData(S, id, S.devices[S.schedules[id].device_id].host),
                             "runNow"),
        ret |-> NoRet]

\* ------------------------------------------------------------------ actions
Budget == NextExec(Cur) <= MaxExec

\* The step re-installed the job of a schedule that had one.
Tag(S0, S1, id) ==
  IF id \in DOMAIN S0.jobs /\ id \in DOMAIN S1.jobs
  THEN Step("reschedule", id) ELSE Other

\* ipc 'schedules:create'
IpcSchedulesCreate ==
  /\ nextId.schedules <= MaxSched
  /\ \E cmd \in CommandInputs, tim \in TimingInputs, en \in BOOLEAN :
       LET S1 == DbCreateSchedule(Cur, cmd, tim, en)
       IN Commit(Gc(IF en THEN AddSchedule(S1, nextId.schedules) ELSE S1), Other)

\* ipc 'schedules:update'
IpcSchedulesUpdate ==
  \E id \in 1..(nextId.schedules - 1), cmd \in CommandInputs, tim \in TimingInputs :
    LET S1 == UpdateScheduleOp(DbUpdateSchedule(Cur, id, cmd, tim), id)
    IN Commit(Gc(S1), Tag(Cur, S1, id))

\* ipc 'schedules:delete'
IpcSchedulesDelete ==
  \E id \in 1..(nextId.schedules - 1) :
    Commit(Gc(DbDeleteSchedule(CancelJob(Cur, id), id)), Step("cancel", id))

\* ipc 'schedules:toggle'
IpcSchedulesToggle ==
  \E id \in 1..(nextId.schedules - 1), en \in BOOLEAN :
    LET S1 == DbSetEnabled(Cur, id, en)
        S2 == IF en THEN EnableSchedule(S1, id) ELSE DisableSchedule(S1, id)
    IN Commit(Gc(S2), IF en THEN Tag(Cur, S2, id) ELSE Step("cancel", id))

\* ipc 'schedules:runNow', while fewer than n executions have been started
RunNowWithin(n) ==
  \E id \in 1..MaxSched :
    LET r == RunNowOp(Cur, id) IN
    /\ r.S # Cur => NextExec(Cur) <= n
    /\ Commit(Gc(r.S), [Step("runNow", id) EXCEPT !.ret = r.ret])

IpcRunNow == RunNowWithin(MaxExec)

\* ipc 'devices:delete'
IpcDevicesDelete ==
  \E d \in DOMAIN devices :
    Commit(Gc(DbDeleteDevice(PoolDisconnect(Cur, <<PoolOf(devices[d].type), d>>), d)), Other)

\* Scheduler.loadSchedules (application start, schedule import)
LoadSchedules == Commit(Gc(LoadSchedulesOp(Cur)), Step("load", NoId))

\* Scheduler.stopAll (schedule import, before-quit)
StopAll == Commit(Gc(StopAllOp(Cur)), Step("stopAll", NoId))

\* The clock advances once every timer due now has fired.
Tick ==
  /\ now < MaxTime
  /\ \A h \in DOMAIN jobObjs : jobObjs[h].at # now
  /\ Commit([Cur EXCEPT !.now = now + 1], Other)

Fire ==
  /\ Budget
  /\ \E h \in DOMAIN jobObjs :
       /\ jobObjs[h].at = now
       /\ Commit(Gc(FireOp(Cur, h)),
                 [Step("fire", jobObjs[h].sched.id) EXCEPT
                    !.kind = jobObjs[h].sched.schedule_type])

SocketConnect ==
  \E s \in DOMAIN sockets :
    /\ sockets[s].st = "connecting"
    /\ Commit(Gc(OnConnect(Cur, s)), Other)

\* The socket's 'error' event of a failed connection attempt.  Its last
\* listener re-emits 'error' on the client, which has no 'error' listener:
\* the emit throws, and the step is an uncaught exception of the process.
SocketError ==
  \E s \in DOMAIN sockets :
    /\ sockets[s].st = "connecting"
    /\ Commit(Gc(OnError(Cur, s)), Step("uncaught", NoId))

SocketTimeout ==
  \E s \in DOMAIN sockets :
    /\ "timeout" \in sockets[s].L
    /\ Commit(Gc(OnTimeout(Cur, s)), Other)

SocketData ==
  \E s \in DOMAIN sockets, e \in DOMAIN execs :
    /\ sockets[s].st = "open"
    /\ execs[e].pc = "awaiting" /\ execs[e].sock = s /\ ~execs[e].answered
    /\ Commit(Gc(OnData(Cur, s, e)), Other)

\* The peer (or the network) closes an established socket.
SocketClose ==
  \E s \in DOMAIN sockets :
    /\ sockets[s].st = "open"
    /\ Commit(Gc(CloseSocket(Cur, s)), Other)

\* The command timeout of a waiting sendCommand expires.
CommandTimeout ==
  \E e \in DOMAIN execs :
    /\ execs[e].pc = "awaiting"
    /\ Commit(Gc(FinishExec(Cur, e, FALSE, "Command timeout")), Other)

ReconnectTimer ==
  \E c \in DOMAIN clients :
    /\ clients[c].timers > 0
    /\ Commit(Gc(OnReconnectTimer(Cur, c)), Other)

\* ------------------------------------------------------------ specification
Init ==
  /\ now = 0
  /\ devices = (1 :> [type |-> "xpression", host |-> "xp", enabled |-> TRUE])
            @@ (2 :> [type |-> "ultrix", host |-> "ux", enabled |-> TRUE])
  /\ schedules = << >>
  /\ nextId = [schedules |-> 1, command_log |-> 1]
  /\ log = << >>
  /\ jobs = << >>
  /\ jobObjs = << >>
  /\ pools = << >>
  /\ clients = << >>
  /\ sockets = << >>
  /\ execs = << >>
  /\ finished = << >>
  /\ last = Other
  /\ wire = NoWire

Next ==
  \/ IpcSchedulesCreate
  \/ IpcSchedulesUpdate
  \/ IpcSchedulesDelete
  \/ IpcSchedulesToggle
  \/ IpcRunNow
  \/ IpcDevicesDelete
  \/ LoadSchedules
  \/ StopAll
  \/ Tick
  \/ Fire
  \/ SocketConnect
  \/ SocketError
  \/ SocketTimeout
  \/ SocketData
  \/ SocketClose
  \/ CommandTimeout
  \/ ReconnectTimer

Spec == Init /\ [][Next]_vars

\* ------------------------------------------- link-level specification
\* The links under commands that overlap: the store holds one schedule, not
\* enabled (no timer), on the line-protocol or on the binary-protocol
\* device, and runNow starts up to MaxCmd commands on its link.
LinkInputs ==
  { cmd \in CommandInputs :
      /\ cmd.device_id \in {1, 2}
      /\ JSONparse(cmd.command_data).kind = "object"
      /\ cmd.command_data \in {"{\"takeId\":7}", "{\"source\":3,\"destination\":5}"} }

Empty ==
  [now |-> 0,
   devices |-> (1 :> [type |-> "xpression", host |-> "xp", enabled |-> TRUE])
            @@ (2 :> [type |-> "ultrix", host |-> "ux", enabled |-> TRUE]),
   schedules |-> << >>, nextId |-> [schedules |-> 1, command_log |-> 1],
   log |-> << >>, jobs |-> << >>, jobObjs |-> << >>, pools |-> << >>,
   clients |-> << >>, sockets |-> << >>, execs |-> << >>, finished |-> << >>]

Start(S) ==
  /\ now = S.now
  /\ devices = S.devices
  /\ schedules = S.schedules
  /\ nextId = S.nextId
  /\ log = S.log
  /\ jobs = S.jobs
  /\ jobObjs = S.jobObjs
  /\ pools = S.pools
  /\ clients = S.clients
  /\ sockets = S.sockets
  /\ execs = S.execs
  /\ finished = S.finished
  /\ last = Other
  /\ wire = NoWire

InitLink ==
  \E cmd \in LinkInputs, tim \in { x \in TimingInputs : x.schedule_type = "recurring" } :
    Start(DbCreateSchedule(Empty, cmd, tim, FALSE))

LinkRunNow == RunNowWithin(MaxCmd)

\* ipc 'devices:getStatus' for a stored or a deleted device id.
IpcDevicesGetStatus ==
  \E d \in DOMAIN Empty.devices :
    LET r == IF d \in DOMAIN devices
             THEN GetStatus(Cur, <<PoolOf(devices[d].type), d>>)
             ELSE [S |-> Cur, ret |-> FALSE]
    IN Commit(r.S, [Step("getStatus", d) EXCEPT
                      !.kind = IF r.ret THEN "connected" ELSE "disconnected"])

NextLink ==
  \/ LinkRunNow
  \/ IpcDevicesGetStatus
  \/ IpcDevicesDelete
  \/ StopAll
  \/ SocketConnect
  \/ SocketError
  \/ SocketTimeout
  \/ SocketData
  \/ SocketClose
  \/ CommandTimeout
  \/ ReconnectTimer

SpecLink == InitLink /\ [][NextLink]_vars

\* ------------------------------------------- devices:update specification
\* The timings of the schedule stored at the start: the two of TimingInputs
\* and a recurring one whose cron expression node-schedule rejects.
DevTimings ==
  TimingInputs \cup { [schedule_type |-> "recurring", cron_expression |-> "bad cron",
                       run_at |-> NoTime] }

\* The application has started with one enabled schedule in the store:
\* loadSchedules has run.
InitDev ==
  \E cmd \in LinkInputs, tim \in DevTimings :
    Start(LoadSchedulesOp(DbCreateSchedule(Empty, cmd, tim, TRUE)))

\* ipc 'devices:update'
IpcDevicesUpdate ==
  \E d \in DOMAIN devices, device \in DeviceUpdates :
    Commit(Gc(DevicesUpdateOp(Cur, d, device)), Other)

NextDev ==
  \/ IpcDevicesUpdate
  \/ LoadSchedules
  \/ StopAll
  \/ IpcRunNow
  \/ Tick
  \/ Fire
  \/ SocketConnect
  \/ SocketError
  \/ SocketTimeout
  \/ SocketData
  \/ SocketClose
  \/ CommandTimeout
  \/ ReconnectTimer

SpecDev == InitDev /\ [][NextDev]_vars

\* ------------------------------------------------- SW-P-08 byte level
\* Protocol constants.
SOM == 16
EOM == 16
EOM2 == 17
COMMAND_CONNECT == 2

\* The 7-bit mask 0x7F of the MSB / LSB split.
Mask7 == 127

\* Bitwise exclusive or of two non-negative integers (the ^ operator).
RECURSIVE BitXor(_, _)
BitXor(a, b) ==
  IF a = 0 THEN b
  ELSE IF b = 0 THEN a
  ELSE (((a % 2) + (b % 2)) % 2) + 2 * BitXor(a \div 2, b \div 2)

\* let checksum = 0; for (const byte of data) checksum ^= byte
RECURSIVE Checksum(_, _)
Checksum(data, checksum) ==
  IF data = << >> THEN checksum
  ELSE Checksum(Tail(data), BitXor(checksum, Head(data)))

\* A faulty split that shifts by a whole byte.
DestMsb_Shift8(v) == (v \div 256) % (Mask7 + 1)

\* (v >> 7) & 0x7F and v & 0x7F for a non-negative v.
DestMsb(v) == (v \div 128) % (Mask7 + 1)
DestLsb(v) == v % (Mask7 + 1)

\* Buffer.from(array): every element is stored modulo 256.
BufferFrom(array) == [i \in 1..Len(array) |-> array[i] % 256]

\* A faulty buildConnectCommand whose checksum also covers SOM.
BuildConnectCommand_SumsSom(matrix, level, source, destination) ==
  LET data == <<COMMAND_CONNECT, matrix, level, DestMsb(destination),
                DestLsb(destination), DestMsb(source), DestLsb(source)>>
  IN BufferFrom(<<SOM>> \o data \o <<Checksum(data, SOM), EOM, EOM2>>)

\* SWP08Client.buildConnectCommand of a client with this matrix and level.
BuildConnectCommand(matrix, level, source, destination) ==
  LET data == <<COMMAND_CONNECT, matrix, level, DestMsb(destination),
                DestLsb(destination), DestMsb(source), DestLsb(source)>>
  IN BufferFrom(<<SOM>> \o data \o <<Checksum(data, 0), EOM, EOM2>>)

\* Buffer.indexOf(byte): the first position (from 1) holding it, 0 if none.
IndexOf(buf, byte) ==
  IF \E i \in 1..Len(buf) : buf[i] = byte
  THEN Min({ i \in 1..Len(buf) : buf[i] = byte })
  ELSE 0

\* SWP08Client.processResponse on the buffer buf: the 'response' events it
\* emits and the buffer it leaves.  The scan starts behind the first SOM and
\* stops at the first EOM EOM2 pair; the loop is left after one message.
ProcessResponse(buf) ==
  LET startIdx == IndexOf(buf, SOM)
      ends     == { i \in (startIdx + 1)..(Len(buf) - 1) :
                      buf[i] = EOM /\ buf[i + 1] = EOM2 }
  IN IF startIdx = 0 \/ ends = {}
     THEN [responseBuffer |-> buf, emitted |-> << >>]
     ELSE LET i == Min(ends)
          IN [responseBuffer |-> SubSeq(buf, i + 2, Len(buf)),
              emitted |-> << SubSeq(buf, startIdx, i + 1) >>]

\* socket.on('data'): append the chunk, then processResponse.
OnDataChunk(W, data) ==
  LET r == ProcessResponse(W.responseBuffer \o data)
  IN [W EXCEPT !.responseBuffer = r.responseBuffer,
               !.responses = @ \o r.emitted]

\* Inputs of the byte level: crosspoint numbers over the whole 14-bit range
\* for the split, a few of them and a few matrix / level bytes for the
\* frame, and the frames a device sends back.
SplitInputs == 0..(Mask7 * 128 + Mask7)
NumberInputs == {0, 1, 16, 127, 128, 2192, Mask7 * 128 + Mask7}
ByteInputs == {0, 16, 17, 255}
FrameInputs == { BuildConnectCommand(0, 0, 3, 5), BuildConnectCommand(0, 0, 2192, 16) }
StreamInputs == FrameInputs \cup { f \o g : f, g \in FrameInputs }

\* Everything but the byte level.
link == <<now, devices, schedules, nextId, log, jobs, jobObjs, pools, clients,
          sockets, execs, finished, last>>

\* Buffer.toString(): UTF-8 decoding of one chunk on its own (the inputs hold
\* no byte from 0xE0 up).  A lead byte without its continuation byte, and a
\* continuation byte without its lead, decode to U+FFFD.
RECURSIVE BufferToString(_)
BufferToString(data) ==
  IF data = << >> THEN << >>
  ELSE LET b == Head(data) IN
       IF b < 128 THEN <<b>> \o BufferToString(Tail(data))
       ELSE IF b \in 194..223 /\ Len(data) >= 2 /\ data[2] \in 128..191
         THEN <<(b - 192) * 64 + (data[2] - 128)>> \o BufferToString(Tail(Tail(data)))
       ELSE <<65533>> \o BufferToString(Tail(data))

\* String.split('\r\n'): the pieces between the CR LF pairs, at least one.
RECURSIVE SplitCRLF(_)
SplitCRLF(s) ==
  LET at == { i \in 1..(Len(s) - 1) : s[i] = 13 /\ s[i + 1] = 10 }
  IN IF at = {} THEN <<s>>
     ELSE <<SubSeq(s, 1, Min(at) - 1)>> \o SplitCRLF(SubSeq(s, Min(at) + 2, Len(s)))

\* String.trim(): white space (tab, LF, CR, space) off both ends.
RECURSIVE Trim(_)
Trim(s) ==
  IF s = << >> THEN s
  ELSE IF Head(s) \in {9, 10, 13, 32} THEN Trim(Tail(s))
  ELSE IF s[Len(s)] \in {9, 10, 13, 32} THEN Trim(SubSeq(s, 1, Len(s) - 1))
  ELSE s

\* for (const line of lines) if (line.trim()) emit('response', line.trim())
RECURSIVE EmitLines(_)
EmitLines(lines) ==
  IF lines = << >> THEN << >>
  ELSE (IF Trim(Head(lines)) # << >> THEN <<Trim(Head(lines))>> ELSE << >>)
       \o EmitLines(Tail(lines))

\* RossTalkClient socket.on('data'): append the decoded chunk, split at
\* CR LF, keep the last piece, emit the others.
OnDataLine(W, data) ==
  LET lines == SplitCRLF(W.responseBuffer \o BufferToString(data))
  IN [W EXCEPT !.responseBuffer = lines[Len(lines)],
               !.responses = @ \o EmitLines(SubSeq(lines, 1, Len(lines) - 1))]

\* The byte streams a line-protocol device sends: "OK" CR LF, two such
\* segments, a segment and an unterminated rest, a segment with a two-byte
\* character, an empty segment before "OK" CR LF.
LineInputs ==
  { <<79, 75, 13, 10>>,
    <<79, 75, 13, 10, 75, 79, 13, 10>>,
    <<79, 75, 13, 10, 75>>,
    <<195, 169, 13, 10>>,
    <<13, 10, 79, 75, 13, 10>> }

\* The calls of the byte level with their inputs: call names the operation
\* about to run on a client that has built and received nothing.
WireInputs ==
  { [NoWire EXCEPT !.call = "split", !.source = v] : v \in SplitInputs }
  \cup { [NoWire EXCEPT !.call = "route", !.source = x[1], !.destination = x[2],
                        !.matrix = x[3], !.level = x[4]] :
           x \in NumberInputs \X NumberInputs \X ByteInputs \X ByteInputs }
  \cup { [NoWire EXCEPT !.call = "send", !.stream = stream, !.rest = stream] :
           stream \in StreamInputs }
  \cup { [NoWire EXCEPT !.call = "line", !.stream = stream, !.rest = stream] :
           stream \in LineInputs }

\* The MSB / LSB split of buildConnectCommand applied to one number.
Split ==
  /\ wire.call = "split" /\ wire.op = "idle"
  /\ wire' = [wire EXCEPT !.op = "split",
                          !.frame = <<DestMsb(wire.source), DestLsb(wire.source)>>]
  /\ UNCHANGED link

\* SWP08Client.route(source, destination) builds its frame.
Route ==
  /\ wire.call = "route" /\ wire.op = "idle"
  /\ wire' = [wire EXCEPT !.op = "route",
                          !.frame = BuildConnectCommand(wire.matrix, wire.level,
                                                        wire.source, wire.destination)]
  /\ UNCHANGED link

\* 'data' with the next chunk, of any length, of the stream the device sends.
SocketDataChunk ==
  /\ wire.call = "send"
  /\ \E n \in 1..Len(wire.rest) :
       wire' = OnDataChunk([wire EXCEPT !.op = "data",
                                        !.rest = SubSeq(@, n + 1, Len(@))],
                           SubSeq(wire.rest, 1, n))
  /\ UNCHANGED link

\* 'data' on a RossTalkClient socket with the next chunk, of any length.
SocketDataLine ==
  /\ wire.call = "line"
  /\ \E n \in 1..Len(wire.rest) :
       wire' = OnDataLine([wire EXCEPT !.op = "data",
                                       !.rest = SubSeq(@, n + 1, Len(@))],
                          SubSeq(wire.rest, 1, n))
  /\ UNCHANGED link

InitWire ==
  /\ \E w \in WireInputs : wire = w
  /\ now = Empty.now
  /\ devices = Empty.devices
  /\ schedules = Empty.schedules
  /\ nextId = Empty.nextId
  /\ log = Empty.log
  /\ jobs = Empty.jobs
  /\ jobObjs = Empty.jobObjs
  /\ pools = Empty.pools
  /\ clients = Empty.clients
  /\ sockets = Empty.sockets
  /\ execs = Empty.execs
  /\ finished = Empty.finished
  /\ last = Other

NextWire ==
  \/ Split
  \/ Route
  \/ SocketDataChunk
  \/ SocketDataLine

SpecWire == InitWire /\ [][NextWire]_vars

\* --------------------------------------------------------------- properties
\* The executions that settle (return or raise) in a step.
Settling == DOMAIN finished' \ DOMAIN finished

\* A job with a pending invocation: installed, not cancelled, not a date job
\* that has already fired.
Live(h) == h \in DOMAIN jobObjs /\ jobObjs[h].at # NoTime

\* The decoded payload lacks a field its command kind requires.
MissingField(sched) ==
  LET cd == JSONparse(sched.command_data) IN
  /\ cd.kind = "object"
  /\ \/ sched.command_type = "take" /\ cd.takeId = Undefined
     \/ sched.command_type = "route"
        /\ (cd.source = Undefined \/ cd.destination = Undefined)

\* The row an execution appends: log' is log with one row more, and that
\* row belongs to execution e.
AppendsRow(e, command, status) ==
  /\ Len(log') = Len(log) + 1
  /\ SubSeq(log', 1, Len(log)) = log
  /\ log'[Len(log')].exec = e
  /\ log'[Len(log')].command = command
  /\ log'[Len(log')].status = status

\* C1: every live timer is the job the Active Job registry holds for its
\* schedule id, so a schedule id never has two live timers and re-scheduling
\* leaves no earlier timer behind.
C1_OneLiveTimerPerSchedule ==
  /\ \A h \in DOMAIN jobObjs :
       Live(h) => /\ jobObjs[h].sched.id \in DOMAIN jobs
                  /\ jobs[jobObjs[h].sched.id] = h
  /\ \A h1, h2 \in DOMAIN jobObjs :
       Live(h1) /\ Live(h2) /\ jobObjs[h1].sched.id = jobObjs[h2].sched.id => h1 = h2
  /\ \A id \in DOMAIN jobs : jobs[id] \in DOMAIN jobObjs /\ jobObjs[jobs[id]].sched.id = id

\* C1 witness: a schedule that had a job has just been scheduled again and
\* holds exactly one live timer.
C1_Witness ==
  /\ last.op = "reschedule"
  /\ last.id \in DOMAIN jobs
  /\ Live(jobs[last.id])
  /\ Cardinality({ h \in DOMAIN jobObjs : Live(h) }) = 1

\* C2: every execution attempt that has ended appended exactly one CommandLog
\* row: the rows ever appended are as many as the executions that ended.
C2_OneRowPerExecution == nextId.command_log - 1 = Cardinality(DOMAIN finished)

\* C3: when the execution of a fired one-time take schedule with takeId 7 on
\* the line-protocol device ends after the device accepted the connection
\* and answered, it appends one row with command 'TAKE 7' and status
\* 'success', and the schedule is stored disabled.
C3_OneTimeTakeSucceeds ==
  [][\A e \in Settling :
       LET x == finished'[e] IN
       ( /\ x.via = "timer"
         /\ x.sched.schedule_type = "once"
         /\ x.sched.command_type = "take"
         /\ x.sched.command_data = "{\"takeId\":7}"
         /\ x.sched.device_id \in DOMAIN devices
         /\ devices[x.sched.device_id].type = "xpression"
         /\ x.answered )
       => /\ ~x.raised
          /\ AppendsRow(e, "TAKE 7", "success")
          /\ x.sched.id \in DOMAIN schedules' => ~schedules'[x.sched.id].enabled]_vars

\* C4: a one-time schedule whose timer has fired is stored with enabled =
\* false, and loadSchedules run from that state installs no job for it and
\* leaves its next_run as it is.
C4_FiredOneTimeStaysOff ==
  \A id \in DOMAIN jobs :
    (jobObjs[jobs[id]].at = NoTime /\ id \in DOMAIN schedules)
    => /\ ~schedules[id].enabled
       /\ LET S2 == LoadSchedulesOp(Cur) IN
          /\ id \in DOMAIN S2.jobs
          /\ S2.jobs[id] = jobs[id]
          /\ S2.jobObjs[jobs[id]] = jobObjs[jobs[id]]
          /\ S2.schedules[id].next_run = schedules[id].next_run

\* C4 witness: loadSchedules has just run while the store holds a one-time
\* schedule whose timer has fired.
C4_Witness ==
  /\ last.op = "load"
  /\ \E id \in DOMAIN jobs :
       /\ jobObjs[jobs[id]].at = NoTime
       /\ id \in DOMAIN schedules
       /\ schedules[id].schedule_type = "once"
       /\ schedules[id].next_run # NoTime

\* C5: when an execution that runNow started for a one-time schedule ends,
\* the schedule is stored with enabled = false.
C5_RunNowDisablesOneTime ==
  [][\A e \in Settling :
       LET x == finished'[e] IN
       (x.via = "runNow" /\ x.sched.schedule_type = "once"
          /\ x.sched.id \in DOMAIN schedules')
       => ~schedules'[x.sched.id].enabled]_vars

\* C6: what runNow returns for an existing schedule and device is the
\* outcome of the execution it ran: success exactly when the execution
\* succeeded, and the failure message otherwise.
C6_RunNowReturnsOutcome ==
  \A e \in DOMAIN finished :
    LET x == finished[e] IN
    x.via = "runNow"
    => /\ ~x.raised
       /\ x.ret.success = x.success
       /\ ~x.success => x.ret.message = x.message

\* C7: runNow on an id that is not in the store returns 'Schedule not found',
\* and on a schedule whose device is missing 'Device not found'; in both
\* cases the step changes nothing: no row, no execution, the same schedules,
\* registry, pools and links.
C7_RunNowNotFound ==
  [][last'.op = "runNow"
     => /\ last'.id \notin DOMAIN schedules
           => /\ last'.ret = [success |-> FALSE, message |-> "Schedule not found"]
              /\ Cur' = Cur
        /\ (last'.id \in DOMAIN schedules
              /\ schedules[last'.id].device_id \notin DOMAIN devices)
           => /\ last'.ret = [success |-> FALSE, message |-> "Device not found"]
              /\ Cur' = Cur]_vars

\* C7 witness: runNow has just answered 'Device not found' in a state whose
\* log already holds a row.
C7_Witness ==
  /\ last.op = "runNow"
  /\ last.ret.message = "Device not found"
  /\ Len(log) > 0

\* C8: neither the step in which runNow starts nor a step in which an
\* execution it started ends changes the Active Job registry or any job's
\* planned time.
C8_RunNowKeepsRegistry ==
  [][(last'.op = "runNow" \/ \E e \in Settling : finished'[e].via = "runNow")
     => jobs' = jobs /\ jobObjs' = jobObjs]_vars

\* C8 witness: an execution started by runNow has ended while the schedule
\* it ran holds a live job.
C8_Witness ==
  \E e \in DOMAIN finished :
    /\ finished[e].via = "runNow"
    /\ finished[e].sched.id \in DOMAIN jobs
    /\ Live(jobs[finished[e].sched.id])

\* C9: an execution of a schedule whose payload cannot be decoded does not
\* raise; it ends as a failure with message 'Invalid command data' and has
\* appended a row (with status 'error').
C9_UndecodableIsFailureResult ==
  \A e \in DOMAIN finished :
    LET x == finished[e] IN
    JSONparse(x.sched.command_data).kind = "throw"
    => /\ ~x.raised
       /\ ~x.success
       /\ x.message = "Invalid command data"
       /\ nextId.command_log > 1

C11_UnreachableRouteFailsCleanly ==
  [][\A e \in Settling :
       LET x == finished'[e] IN
       ( /\ x.via = "timer"
         /\ x.sched.command_type = "route"
         /\ e \in DOMAIN execs
         /\ execs[e].pc = "connecting" )
       => /\ ~x.raised
          /\ AppendsRow(e, "ROUTE 3 -> 5", "error")
          /\ log'[Len(log')].response \in {"connect ECONNREFUSED", "Connection timeout"}
          /\ last'.op # "uncaught"
          /\ jobs' = jobs /\ jobObjs' = jobObjs]_vars

\* C12: on one link no two commands are written and waiting at once: a
\* sendCommand whose bytes have been written and whose response is awaited
\* is the only such call on its client.
C12_CommandsSerialized ==
  \A e1, e2 \in DOMAIN execs :
    ( /\ execs[e1].pc = "awaiting" /\ execs[e2].pc = "awaiting"
      /\ execs[e1].client # NoId /\ execs[e1].client = execs[e2].client )
    => e1 = e2

\* C13: one received response completes at most one sendCommand call: no
\* step ends two executions as successes.
C13_OneResponseOneCall ==
  [][Cardinality({ e \in Settling : finished'[e].success }) <= 1]_vars

\* The client of execution e is the link its pool holds under its key.
Pooled(e) ==
  LET c == execs[e].client IN
  /\ c \in DOMAIN clients
  /\ clients[c].key \in DOMAIN pools
  /\ pools[clients[c].key] = c

\* C14: when a step disconnects a link (its pool entry goes) while a
\* sendCommand on it awaits its response, that call ends in the same step as
\* a failure whose message is not the command timeout.
C14_DisconnectFailsOutstanding ==
  [][\A e \in DOMAIN execs :
       ( /\ execs[e].pc = "awaiting"
         /\ Pooled(e)
         /\ clients[execs[e].client].key \notin DOMAIN pools' )
       => /\ e \in DOMAIN finished'
          /\ ~finished'[e].success
          /\ finished'[e].message # "Command timeout"]_vars

\* C15: when the socket a sendCommand wrote to closes while the call awaits
\* its response (the link is not being disconnected), the call ends in that
\* step as a failure that is not the command timeout; and a call that ends
\* with 'Command timeout' has its socket still open.
C15_SocketLossIsConnectionError ==
  [][/\ \A e \in DOMAIN execs :
          ( /\ execs[e].pc = "awaiting"
            /\ execs[e].sock \in DOMAIN sockets
            /\ execs[e].sock \notin DOMAIN sockets'
            /\ pools' = pools )
          => /\ e \in DOMAIN finished'
             /\ ~finished'[e].success
             /\ finished'[e].message # "Command timeout"
     /\ \A e \in Settling :
          (e \in DOMAIN execs /\ finished'[e].message = "Command timeout")
          => /\ execs[e].sock \in DOMAIN sockets
             /\ sockets[execs[e].sock].st = "open"]_vars

\* The link c is the one its pool holds, before and after the step: the
\* step is no explicit disconnect of it.
Kept(c) ==
  /\ c \in DOMAIN clients
  /\ clients[c].key \in DOMAIN pools
  /\ pools[clients[c].key] = c
  /\ pools' = pools

\* C16: when the socket of an established line-protocol link closes, a
\* reconnect timer is pending afterwards.
C16_LineLinkReconnects ==
  [][\A s \in DOMAIN sockets :
       LET c == sockets[s].client IN
       ( /\ sockets[s].st = "open"
         /\ s \notin DOMAIN sockets'
         /\ Kept(c)
         /\ clients[c].key[1] = "rosstalk"
         /\ clients[c].socket = s )
       => clients'[c].reconnectTimer]_vars

\* C17: on a binary-protocol link, a socket that closes (an established
\* connection or a failed attempt) leaves a reconnect timer pending, and the
\* timer's callback opens a new socket unless the link's socket is open.
C17_FrameLinkReconnects ==
  [][/\ \A s \in DOMAIN sockets :
          LET c == sockets[s].client IN
          (s \notin DOMAIN sockets' /\ Kept(c) /\ clients[c].key[1] = "swp08")
          => clients'[c].reconnectTimer
     /\ \A c \in DOMAIN clients :
          ( /\ Kept(c) /\ clients[c].key[1] = "swp08"
            /\ clients[c].reconnectTimer /\ ~clients'[c].reconnectTimer )
          => /\ clients'[c].socket \in DOMAIN sockets'
             /\ \/ sockets'[clients'[c].socket].st = "open"
                \/ clients'[c].socket \notin DOMAIN sockets]_vars

\* The client c is in no pool (it has been disconnected and dropped).
Evicted(S, c) == \A k \in DOMAIN S.pools : S.pools[k] # c

\* C18: a link that has been disconnected has no reconnect timer pending and
\* opens no socket: after every step, a client that is in no pool has no
\* timer, and no socket of the step's making is its own.
C18_DisconnectIsFinal ==
  [][\A c \in DOMAIN clients' :
       Evicted(Cur', c)
       => /\ ~clients'[c].reconnectTimer
          /\ \A s \in DOMAIN sockets' :
               sockets'[s].client = c
               => s \in DOMAIN sockets /\ sockets[s].client = c]_vars

\* C19: each link has at most one open or connecting socket: the sockets
\* alive for one pool key are never two.
C19_OneSocketPerLink ==
  \A s1, s2 \in DOMAIN sockets :
    clients[sockets[s1].client].key = clients[sockets[s2].client].key => s1 = s2

\* The executions a step starts.
Starting == (DOMAIN execs' \cup DOMAIN finished') \ (DOMAIN execs \cup DOMAIN finished)

\* C20: no Active Job is registered for a schedule whose device is not in
\* the store, and no timer fire starts an execution on such a device.
C20_NoJobForDeletedDevice ==
  [][/\ \A id \in DOMAIN jobs' : jobObjs'[jobs'[id]].sched.device_id \in DOMAIN devices'
     /\ last'.op = "fire"
        => \A e \in Starting :
             LET x == IF e \in DOMAIN execs' THEN execs'[e] ELSE finished'[e]
             IN x.sched.device_id \in DOMAIN devices]_vars

\* C21: a step that disables or deletes a schedule leaves its id out of the
\* Active Job registry and leaves no timer of it behind, and a timer only
\* fires for an id whose job is in the registry and due.
C21_CancelledJobNeverFires ==
  [][/\ last'.op = "cancel"
        => /\ last'.id \notin DOMAIN jobs'
           /\ \A h \in DOMAIN jobObjs' : jobObjs'[h].sched.id # last'.id
     /\ last'.op = "fire"
        => /\ last'.id \in DOMAIN jobs
           /\ jobObjs[jobs[last'.id]].at = now]_vars

\* C21 witness: a recurring schedule that had a job due at time 1 is stored
\* disabled, the clock has reached 1, and nothing was executed.
C21_Witness ==
  /\ now = 1
  /\ execs = << >> /\ finished = << >>
  /\ \E id \in DOMAIN schedules :
       /\ schedules[id].schedule_type = "recurring"
       /\ ~schedules[id].enabled
       /\ schedules[id].next_run = 1
       /\ id \notin DOMAIN jobs

\* The execution e, in flight in state S, can still end: it awaits a response
\* (its command timeout is armed), or it awaits a connect on a socket that
\* still has a listener settling the connect promise.
CanFinish(S, e) ==
  \/ S.execs[e].pc = "awaiting"
  \/ /\ S.execs[e].pc = "connecting"
     /\ \E s \in DOMAIN S.sockets :
          /\ S.sockets[s].waiter = e
          /\ S.sockets[s].pending
          /\ S.sockets[s].L \cap {"connect", "error_once", "timeout"} # {}

\* The step cancels the Active Job of the schedule that execution e runs.
CancelsJobOf(e) ==
  \/ last'.op = "stopAll"
  \/ last'.op \in {"cancel", "reschedule"} /\ last'.id = execs[e].sched.id

\* C22: a step that cancels a schedule's Active Job (cancelJob,
\* disableSchedule, updateSchedule, stopAll) while an execution of that
\* schedule is in flight (and able to end) does not abort the execution:
\* afterwards it has ended or can still end.
C22_CancelKeepsExecution ==
  [][\A e \in DOMAIN execs :
       (CancelsJobOf(e) /\ CanFinish(Cur, e))
       => \/ e \in DOMAIN finished'
          \/ e \in DOMAIN execs' /\ CanFinish(Cur', e)]_vars

\* C23: after a stopAll step the registry is empty and no timer is left, both
\* pools are empty, no socket of any link is alive and no reconnect timer is
\* pending.
C23_StopAllLeavesNothing ==
  [][last'.op = "stopAll"
     => /\ jobs' = << >>
        /\ jobObjs' = << >>
        /\ pools' = << >>
        /\ sockets' = << >>
        /\ \A c \in DOMAIN clients' : ~clients'[c].reconnectTimer]_vars

\* C24: executions started together on one device all complete and each
\* appends its own row: an execution waiting for the connect of a link still
\* in its pool can always end, and every row of an ended execution carries
\* that execution's command string.
C24_ConcurrentExecutionsComplete ==
  /\ \A e \in DOMAIN execs :
       (Pooled(e) /\ execs[e].pc = "connecting") => CanFinish(Cur, e)
  /\ \A i \in 1..Len(log) :
       log[i].exec \in DOMAIN finished
       => log[i].command = finished[log[i].exec].command

\* The pool keys of the two stored devices.
PoolKeys == { <<PoolOf(Empty.devices[d].type), d>> : d \in DOMAIN Empty.devices }

\* C25: in every state, getClient(deviceId) hands back the link registered
\* for the id and changes nothing, or, when none is registered, registers a
\* new unconnected link without opening a socket; and a pool entry keeps its
\* link instance from step to step for as long as it exists.
C25_GetClientReusesLink ==
  [][/\ \A key \in PoolKeys :
          LET S1 == GetClient(Cur, key, "h") IN
          IF key \in DOMAIN pools
          THEN S1 = Cur
          ELSE /\ S1.sockets = sockets
               /\ DOMAIN S1.pools = DOMAIN pools \cup {key}
               /\ \A k \in DOMAIN pools : S1.pools[k] = pools[k]
               /\ S1.pools[key] \notin DOMAIN clients
               /\ S1.clients[S1.pools[key]].socket = NoId
               /\ ~S1.clients[S1.pools[key]].connected
               /\ ~S1.clients[S1.pools[key]].reconnectTimer
     /\ \A k \in DOMAIN pools \cap DOMAIN pools' : pools'[k] = pools[k]]_vars

\* C25 witness: two commands in flight obtained the same pooled link.
C25_Witness ==
  \E e1, e2 \in DOMAIN execs :
    /\ e1 # e2
    /\ execs[e1].client = execs[e2].client
    /\ Pooled(e1)

\* C26: a getStatus step answers with the connected flag of the link
\* registered for the device id, false when none is registered, and changes
\* no link, pool, socket, timer or stored record.
C26_GetStatusIsPure ==
  [][last'.op = "getStatus"
     => /\ Cur' = Cur
        /\ LET ks == { k \in DOMAIN pools : k[2] = last'.id }
           IN last'.kind = IF \E k \in ks : clients[pools[k]].connected
                           THEN "connected" ELSE "disconnected"]_vars

\* C26 witness: getStatus has answered for a connected link while the other
\* device has no link registered.
C26_Witness ==
  /\ last.op = "getStatus"
  /\ last.kind = "connected"
  /\ \E d \in DOMAIN Empty.devices : \A k \in DOMAIN pools : k[2] # d

\* Bit b of the byte x.
BitOf(x, b) == (x \div (2 ^ b)) % 2

\* C27: the frame built for a source and a destination in 0..16383 and any
\* matrix and level byte is SOM, the seven payload bytes 0x02, matrix, level,
\* destination MSB, destination LSB, source MSB, source LSB, the checksum,
\* EOM, EOM2; every bit of the checksum is the parity of that bit over the
\* seven payload bytes (their XOR).
C27_ConnectFrameLayout ==
  wire.op = "route"
  => LET f == wire.frame
         payload == <<COMMAND_CONNECT, wire.matrix, wire.level,
                      wire.destination \div 128, wire.destination % 128,
                      wire.source \div 128, wire.source % 128>>
     IN /\ Len(f) = 11
        /\ f[1] = SOM
        /\ SubSeq(f, 2, 8) = payload
        /\ f[9] \in 0..255
        /\ \A b \in 0..7 :
             BitOf(f[9], b) = (BitOf(payload[1], b) + BitOf(payload[2], b)
                               + BitOf(payload[3], b) + BitOf(payload[4], b)
                               + BitOf(payload[5], b) + BitOf(payload[6], b)
                               + BitOf(payload[7], b)) % 2
        /\ f[10] = EOM
        /\ f[11] = EOM2

\* C27 witness: a frame was built for the largest source, a destination above
\* 127 and a non-zero matrix and level.
C27_Witness ==
  /\ wire.op = "route"
  /\ wire.source = 16383
  /\ wire.destination = 128
  /\ wire.matrix = 255
  /\ wire.level = 17
  /\ wire.frame[9] # 0

\* C28: for every number v in 0..16383 the split gives two 7-bit values with
\* MSB * 128 + LSB = v.
C28_SplitRoundTrip ==
  wire.op = "split"
  => /\ wire.frame[1] \in 0..127
     /\ wire.frame[2] \in 0..127
     /\ wire.frame[1] * 128 + wire.frame[2] = wire.source

\* C28 witness: the largest number has been split into 0x7F, 0x7F.
C28_Witness ==
  /\ wire.op = "split"
  /\ wire.source = 16383
  /\ wire.frame = <<127, 127>>

\* C29: from an empty buffer, one valid frame delivered in any sequence of
\* chunks has, once its last byte is in, emitted exactly one response, the
\* same bytes that its delivery in a single chunk emits.
C29_FragmentsEmitOneResponse ==
  (wire.op = "data" /\ wire.stream \in FrameInputs /\ wire.rest = << >>)
  => /\ Len(wire.responses) = 1
     /\ wire.responses = OnDataChunk(NoWire, wire.stream).responses

\* C30: while a stream of two frames arrives, no complete frame is left in
\* the buffer after a chunk has been handled, and once the stream is in,
\* both frames have been emitted in order.
C30_EveryCompleteFrameEmitted ==
  \A f, g \in FrameInputs :
    (wire.op = "data" /\ wire.stream = f \o g)
    => /\ ProcessResponse(wire.responseBuffer).emitted = << >>
       /\ wire.rest = << >> => wire.responses = <<f, g>>

\* The complete CR LF terminated segments of a byte stream, each decoded as
\* a whole.
Segments(stream) ==
  LET pieces == SplitCRLF(stream)
  IN [i \in 1..(Len(pieces) - 1) |-> BufferToString(pieces[i])]

\* C31: once a line-protocol stream is in, whatever its chunks, the
\* responses emitted are its complete CR LF terminated segments, one each
\* and in order, and the buffer holds the unterminated rest.
C31_EverySegmentOneResponse ==
  (wire.call = "line" /\ wire.op = "data" /\ wire.rest = << >>)
  => LET pieces == SplitCRLF(wire.stream)
     IN /\ wire.responses = Segments(wire.stream)
        /\ wire.responseBuffer = BufferToString(pieces[Len(pieces)])

\* C32: every link has at most one reconnect timer pending, and a timer is
\* pending exactly while the link's timer handle is set.
C32_OneReconnectTimer ==
  \A c \in DOMAIN clients :
    /\ clients[c].timers <= 1
    /\ clients[c].reconnectTimer <=> clients[c].timers = 1

\* C32 witness: a reconnect attempt made by the timer is under way and a
\* close event has armed the timer again.
C32_Witness ==
  \E s \in DOMAIN sockets :
    /\ sockets[s].waiter = NoId
    /\ sockets[s].pending
    /\ clients[sockets[s].client].timers = 1

\* C33: every schedule id in the Active Job registry is the id of a stored
\* schedule with enabled = true.
C33_RegistryHoldsEnabledSchedules ==
  \A id \in DOMAIN jobs :
    /\ id \in DOMAIN schedules
    /\ schedules[id].enabled

\* C34: in every state, scheduleJob for a stored one-time schedule whose
\* run_at is not later than the clock leaves no job and no timer for the id
\* and leaves the store as it is, and a job that scheduleJob installs has its
\* fire time, later than the clock, stored as next_run; no timer that can
\* still fire is set to a time before the clock.
C34_PastOneTimeInstallsNothing ==
  /\ \A id \in DOMAIN schedules :
       LET sched == ScheduleData(Cur, id, "h")
           S1    == ScheduleJob(Cur, sched)
       IN IF sched.schedule_type = "once" /\ sched.run_at <= now
          THEN /\ id \notin DOMAIN S1.jobs
               /\ \A h \in DOMAIN S1.jobObjs : S1.jobObjs[h].sched.id # id
               /\ S1.schedules = schedules
          ELSE id \in DOMAIN S1.jobs
               => /\ S1.jobObjs[S1.jobs[id]].at > now
                  /\ S1.schedules[id].next_run = S1.jobObjs[S1.jobs[id]].at
  /\ \A h \in DOMAIN jobObjs : jobObjs[h].at # NoTime => jobObjs[h].at >= now

\* C34 witness: loadSchedules has just handed scheduleJob an enabled one-time
\* schedule of a stored device whose run_at the clock has reached; next_run
\* was never written, no job is registered and nothing was executed.
C34_Witness ==
  /\ last.op = "load"
  /\ finished = << >> /\ execs = << >>
  /\ \E id \in GetEnabledSchedules(Cur) :
       /\ schedules[id].schedule_type = "once"
       /\ schedules[id].run_at <= now
       /\ schedules[id].next_run = NoTime
       /\ id \notin DOMAIN jobs

\* C35: when a timer-fired execution of a recurring schedule ends while the
\* schedule's job is registered, the stored next_run is a time of the cron
\* expression later than the time of that fire.
C35_NextRunAfterFire ==
  [][\A e \in Settling :
       LET f == finished'[e] IN
       ( /\ f.via = "timer"
         /\ f.sched.schedule_type = "recurring"
         /\ f.sched.id \in DOMAIN jobs' )
       => /\ f.sched.id \in DOMAIN schedules'
          /\ schedules'[f.sched.id].next_run > f.started
          /\ \E t \in f.started..MaxTime :
               schedules'[f.sched.id].next_run = CronNext(f.sched.cron_expression, t)]_vars

\* The job data sched is the stored record r of its schedule.
BuiltFrom(sched, r) ==
  /\ sched.device_id = r.device_id
  /\ sched.command_type = r.command_type
  /\ sched.command_data = r.command_data
  /\ sched.schedule_type = r.schedule_type
  /\ sched.cron_expression = r.cron_expression
  /\ sched.run_at = r.run_at

\* C36: in every state and for every update of a schedule's command and
\* timing, after the schedules:update handler the only timer of the id is the
\* registered job, built from the record as now stored and set to the fire
\* time of its timing; and when the record is absent, disabled or one-time
\* with run_at not later than the clock, the id has no job and no timer.
C36_UpdateRebuildsJob ==
  \A id \in 1..(nextId.schedules - 1), cmd \in CommandInputs, tim \in TimingInputs :
    LET S1   == UpdateScheduleOp(DbUpdateSchedule(Cur, id, cmd, tim), id)
        mine == { h \in DOMAIN S1.jobObjs : S1.jobObjs[h].sched.id = id }
    IN /\ \A h \in mine :
            /\ id \in DOMAIN S1.jobs /\ S1.jobs[id] = h
            /\ id \in DOMAIN S1.schedules
            /\ BuiltFrom(S1.jobObjs[h].sched, S1.schedules[id])
            /\ S1.jobObjs[h].at = IF tim.schedule_type = "once" THEN tim.run_at
                                  ELSE CronNext(tim.cron_expression, now)
       /\ ( \/ id \notin DOMAIN S1.schedules
            \/ ~S1.schedules[id].enabled
            \/ tim.schedule_type = "once" /\ tim.run_at <= now )
          => mine = {} /\ id \notin DOMAIN S1.jobs

\* C36 witness: a schedule was executed with one payload, its payload was
\* then updated while it had a job, and the job now registered carries the
\* stored payload.
C36_Witness ==
  /\ last.op = "reschedule"
  /\ last.id \in DOMAIN jobs /\ last.id \in DOMAIN schedules
  /\ jobObjs[jobs[last.id]].sched.command_data = schedules[last.id].command_data
  /\ \E e \in DOMAIN finished :
       /\ finished[e].sched.id = last.id
       /\ finished[e].sched.command_data # schedules[last.id].command_data

\* The stored schedule id has a timing scheduleJob installs a job for: a
\* recurring one with a cron expression (valid, when valid is set), or a
\* one-time one with run_at later than the clock.
Installable(S, id, valid) ==
  LET s == S.schedules[id] IN
  \/ /\ s.schedule_type = "recurring"
     /\ s.cron_expression # ""
     /\ valid => CronValid(s.cron_expression)
  \/ s.schedule_type = "once" /\ s.run_at > S.now

C38_FireUsesStoredAddress ==
  [][\A e \in Starting \cap DOMAIN execs' :
       LET x == execs'[e]
           c == x.client
       IN ( /\ x.via = "timer"
            /\ c \in DOMAIN clients'
            /\ clients'[c].key \notin DOMAIN pools
            /\ x.sched.device_id \in DOMAIN devices )
          => clients'[c].host = devices[x.sched.device_id].host]_vars

\* C39: every CommandLog row has a schedule_id that is null or the id of a
\* stored schedule, and a device_id that is the id of a stored device.
C39_LogRowsReferToStoredRecords ==
  \A i \in 1..Len(log) :
    /\ log[i].schedule_id = NoId \/ log[i].schedule_id \in DOMAIN schedules
    /\ log[i].device_id \in DOMAIN devices

\* C40: a device id has a link in at most one pool, and a stored device's
\* link is in the pool of the device's stored kind.
C40_LinkOnlyInPoolOfKind ==
  /\ \A k1, k2 \in DOMAIN pools : k1[2] = k2[2] => k1 = k2
  /\ \A k \in DOMAIN pools :
       k[2] \in DOMAIN devices => k[1] = PoolOf(devices[k[2]].type)

=============================================================================
